---- MODULE Spec2Model ----
(***************************************************************************)
(* The two scene scripts of manim-notebook as a state machine.             *)
(*                                                                         *)
(*   walk : a run of MyFirstManimNotebook  (src/walkthrough/sample_scene)  *)
(*   logo : a run of ManimNotebookLogo     (scripts/make_manim_notebook_   *)
(*          logo)                                                          *)
(*   env  : what the runs find around them: whether manimlib can be        *)
(*          imported, whether the asset file exists, the library call (if  *)
(*          any) at which the animation library raises, and the cells of   *)
(*          the walkthrough that are run.                                  *)
(*                                                                         *)
(* Each run is a record: pc (the call about to run), ns (the local names   *)
(* bound so far), mobjects (what the script has put on the scene, in       *)
(* order), attr (the attributes the script has set, by <<object, name>>;   *)
(* an absent key is the library's default), writes (the calls that set     *)
(* each attribute), playing (the animations of the play call in progress), *)
(* rendered (the play calls finished, in order), log (the calls that       *)
(* returned, in order), err / failedAt (the exception that left the run).  *)
(*                                                                         *)
(* Reals are kept in hundredths: 0.5 is 50, 0.94 is 94.                    *)
(***************************************************************************)
EXTENDS Integers, Sequences, FiniteSets, TLC

VARIABLES walk, logo, env

vars == <<walk, logo, env>>

----------------------------------------------------------------------------
(* Literals of the scripts *)

StrokeWidth == 4
FillOpacity == 50
FrameWidth == 25
FontSize == 400
TexOpacity == 50
GlowRadius == 150
GlowFactor == 175
SvgStrokeWidth == 9

Origin == <<0, 0, 0>>
GlowShift == <<94, 70, 0>>
SvgShift == <<0, -15, 0>>

VecAdd(u, v) == <<u[1] + v[1], u[2] + v[2], u[3] + v[3]>>

----------------------------------------------------------------------------
(* The calls of the two scripts, in the order written *)

WalkOrder ==
    <<"import", "L14", "L15", "L16", "L16p", "L21", "L22", "L22p", "L25", "L25p">>

LogoOrder ==
    <<"import", "L20_Tex", "L20_set_color", "L20_set_opacity", "L21_GlowDot",
      "L21_shift", "L22_SVGMobject", "L22_shift", "L23", "L23p", "L24">>

Range(q) == {q[i] : i \in 1..Len(q)}

IsPrefix(p, q) == /\ Len(p) <= Len(q)
                  /\ \A i \in 1..Len(p) : p[i] = q[i]

(* The library calls made inside construct: the places an exception of the *)
(* library can come from.                                                   *)
WalkCalls == Range(WalkOrder) \ {"import"}
LogoCalls == Range(LogoOrder) \ {"import"}

----------------------------------------------------------------------------
(* Cells of MyFirstManimNotebook.construct: each starts at a ## comment *)

AllCells == {1, 2, 3}

(* Variant: the ## comment of cell 2 one line too low, below square = Square() *)
CellStart_low(c) == CASE c = 1 -> "L14"
                      [] c = 2 -> "L22"
                      [] c = 3 -> "L25"

CellStart(c) == CASE c = 1 -> "L14"
                  [] c = 2 -> "L21"
                  [] c = 3 -> "L25"

CellOf(step) == CASE step \in {"L14", "L15", "L16", "L16p"} -> 1
                  [] step \in {"L21", "L22", "L22p"} -> 2
                  [] step \in {"L25", "L25p"} -> 3
                  [] OTHER -> 0

Min(S) == CHOOSE x \in S : \A y \in S : x <= y

(* Where control goes when cell c has ended: the next cell that is run. *)
AfterCell(c) ==
    LET later == {d \in env.cells : d > c}
    IN  IF later = {} THEN "done" ELSE CellStart(Min(later))

----------------------------------------------------------------------------
(* Python: an exception nobody catches leaves construct where it is raised *)

(* Variant: construct wrapped in try / except: pass *)
Raise_swallowed(s, step, kind) == [s EXCEPT !.pc = "done"]

Raise(s, step, kind) ==
    [s EXCEPT !.pc = "raised", !.failedAt = step, !.err = kind]

Return(s, step, next) ==
    [s EXCEPT !.pc = next, !.log = Append(@, step)]

(* A call that reads the local names `uses`: NameError when one is unbound, *)
(* the library's exception when the library raises, else the call's effect. *)
Call(s, step, uses, fault, kind, effect) ==
    IF ~(uses \subseteq s.ns) THEN Raise(s, step, "NameError")
    ELSE IF fault THEN Raise(s, step, kind)
    ELSE effect

Written(s, o, a) == IF <<o, a>> \in DOMAIN s.writes THEN s.writes[<<o, a>>] ELSE {}

SetAttr(s, o, a, v, call) ==
    [s EXCEPT !.attr = (<<o, a>> :> v) @@ @,
              !.writes = (<<o, a>> :> (Written(s, o, a) \cup {call})) @@ @]

Position(s, o) == IF <<o, "position">> \in DOMAIN s.attr
                  THEN s.attr[<<o, "position">>] ELSE Origin

Shift(s, o, v, call) == SetAttr(s, o, "position", VecAdd(Position(s, o), v), call)

Bind(s, name) == [s EXCEPT !.ns = @ \cup {name}]

(* Scene.add / an animation's begin: on the scene once, at the end. *)
AddMobject(s, o) ==
    IF o \in Range(s.mobjects) THEN s ELSE [s EXCEPT !.mobjects = Append(@, o)]

RemoveMobject(s, o) ==
    [s EXCEPT !.mobjects = SelectSeq(@, LAMBDA x : x # o)]

BeginPlay(s, anims) == [s EXCEPT !.playing = anims]

EndPlay(s) == [s EXCEPT !.rendered = Append(@, s.playing), !.playing = {}]

NewRun == [pc |-> "import", ns |-> {}, mobjects |-> <<>>, attr |-> <<>>,
           writes |-> <<>>, playing |-> {}, rendered |-> <<>>, log |-> <<>>,
           err |-> "none", failedAt |-> "none"]

----------------------------------------------------------------------------
(* MyFirstManimNotebook: sample_scene.py *)

WalkFault(step) == env.walkFault = step

(* line 1: from manimlib import *; construct then starts at the first cell *)
Walk_import ==
    /\ walk.pc = "import"
    /\ walk' = IF ~env.manimlib THEN Raise(walk, "import", "ImportError")
               ELSE Return(walk, "import", AfterCell(0))
    /\ UNCHANGED <<logo, env>>

(* line 14: circle = Circle() *)
Walk_L14_Circle ==
    /\ walk.pc = "L14"
    /\ walk' = Call(walk, "L14", {}, WalkFault("L14"), "LibraryError",
                    Bind(Return(walk, "L14", "L15"), "circle"))
    /\ UNCHANGED <<logo, env>>

(* line 15: circle.set_stroke(BLUE_E, width=4) *)
Walk_L15_set_stroke ==
    /\ walk.pc = "L15"
    /\ walk' = Call(walk, "L15", {"circle"}, WalkFault("L15"), "LibraryError",
                    SetAttr(SetAttr(Return(walk, "L15", "L16"),
                                    "circle", "stroke_color", "BLUE_E", "L15"),
                            "circle", "stroke_width", StrokeWidth, "L15"))
    /\ UNCHANGED <<logo, env>>

(* Variant of line 16: a play call that returns at once, its animation not ended *)
Walk_L16_play_async ==
    /\ walk.pc = "L16"
    /\ walk' = Call(walk, "L16", {"circle"}, WalkFault("L16"), "LibraryError",
                    BeginPlay(AddMobject(Return(walk, "L16", AfterCell(1)), "circle"),
                              {"ShowCreation(circle)"}))
    /\ UNCHANGED <<logo, env>>

(* line 16: self.play(ShowCreation(circle)), up to the animation's begin: *)
(* the circle is put on the scene                                          *)
Walk_L16_play ==
    /\ walk.pc = "L16"
    /\ walk' = Call(walk, "L16", {"circle"}, WalkFault("L16"), "LibraryError",
                    BeginPlay(AddMobject(Return(walk, "L16", "L16p"), "circle"),
                              {"ShowCreation(circle)"}))
    /\ UNCHANGED <<logo, env>>

(* line 16: the play call runs to its end and returns; cell 1 ends *)
Walk_L16_play_end ==
    /\ walk.pc = "L16p"
    /\ walk' = Call(walk, "L16p", {}, WalkFault("L16p"), "LibraryError",
                    EndPlay(Return(walk, "L16p", AfterCell(1))))
    /\ UNCHANGED <<logo, env>>

(* line 21: square = Square() *)
Walk_L21_Square ==
    /\ walk.pc = "L21"
    /\ walk' = Call(walk, "L21", {}, WalkFault("L21"), "LibraryError",
                    Bind(Return(walk, "L21", "L22"), "square"))
    /\ UNCHANGED <<logo, env>>

(* line 22: self.play(ReplacementTransform(circle, square)), up to the     *)
(* animation's begin: the mobject that is transformed is put on the scene  *)
Walk_L22_play ==
    /\ walk.pc = "L22"
    /\ walk' = Call(walk, "L22", {"circle", "square"}, WalkFault("L22"), "LibraryError",
                    BeginPlay(AddMobject(Return(walk, "L22", "L22p"), "circle"),
                              {"ReplacementTransform(circle,square)"}))
    /\ UNCHANGED <<logo, env>>

(* Variant of line 22: Transform in place of ReplacementTransform: the circle *)
(* stays on the scene and the square never comes on it                       *)
Walk_L22_play_end_Transform ==
    /\ walk.pc = "L22p"
    /\ walk' = Call(walk, "L22p", {}, WalkFault("L22p"), "LibraryError",
                    EndPlay(Return(walk, "L22p", AfterCell(2))))
    /\ UNCHANGED <<logo, env>>

(* line 22: the play call ends: the replacement transform takes the circle *)
(* off the scene and puts the square on it; cell 2 ends                    *)
Walk_L22_play_end ==
    /\ walk.pc = "L22p"
    /\ walk' = Call(walk, "L22p", {}, WalkFault("L22p"), "LibraryError",
                    EndPlay(AddMobject(RemoveMobject(
                        Return(walk, "L22p", AfterCell(2)), "circle"), "square")))
    /\ UNCHANGED <<logo, env>>

(* lines 25-28: self.play(square.animate.set_fill(RED_D, opacity=0.5),     *)
(* self.frame.animate.set_width(25)), up to the animations' begin          *)
Walk_L25_play ==
    /\ walk.pc = "L25"
    /\ walk' = Call(walk, "L25", {"square"}, WalkFault("L25"), "LibraryError",
                    BeginPlay(AddMobject(Return(walk, "L25", "L25p"), "square"),
                              {"square.set_fill", "frame.set_width"}))
    /\ UNCHANGED <<logo, env>>

(* Variant of lines 25-28: the square itself flies away,                    *)
(* square.animate.set_fill(RED_D, opacity=0.5).shift(...)                   *)
Walk_L25_play_end_moves ==
    /\ walk.pc = "L25p"
    /\ walk' = Call(walk, "L25p", {}, WalkFault("L25p"), "LibraryError",
                    Shift(SetAttr(SetAttr(SetAttr(
                        EndPlay(Return(walk, "L25p", AfterCell(3))),
                        "square", "fill_color", "RED_D", "L26"),
                        "square", "fill_opacity", FillOpacity, "L26"),
                        "frame", "width", FrameWidth, "L27"),
                        "square", GlowShift, "L26"))
    /\ UNCHANGED <<logo, env>>

(* lines 25-28: the play call ends: both animated calls have taken effect; *)
(* cell 3 and construct end                                                *)
Walk_L25_play_end ==
    /\ walk.pc = "L25p"
    /\ walk' = Call(walk, "L25p", {}, WalkFault("L25p"), "LibraryError",
                    SetAttr(SetAttr(SetAttr(
                        EndPlay(Return(walk, "L25p", AfterCell(3))),
                        "square", "fill_color", "RED_D", "L26"),
                        "square", "fill_opacity", FillOpacity, "L26"),
                        "frame", "width", FrameWidth, "L27"))
    /\ UNCHANGED <<logo, env>>

WalkNext ==
    \/ Walk_import
    \/ Walk_L14_Circle
    \/ Walk_L15_set_stroke
    \/ Walk_L16_play
    \/ Walk_L16_play_end
    \/ Walk_L21_Square
    \/ Walk_L22_play
    \/ Walk_L22_play_end
    \/ Walk_L25_play
    \/ Walk_L25_play_end

----------------------------------------------------------------------------
(* ManimNotebookLogo: make_manim_notebook_logo.py *)

LogoFault(step) == env.logoFault = step

(* lines 9-15: the imports and ASSETS, the path of the assets directory *)
Logo_import ==
    /\ logo.pc = "import"
    /\ logo' = IF ~env.manimlib THEN Raise(logo, "import", "ImportError")
               ELSE Return(logo, "import", "L20_Tex")
    /\ UNCHANGED <<walk, env>>

(* line 20: Tex(r"\mathbb{M}", font_size=400) *)
Logo_L20_Tex ==
    /\ logo.pc = "L20_Tex"
    /\ logo' = Call(logo, "L20_Tex", {}, LogoFault("L20_Tex"), "LibraryError",
                    SetAttr(Return(logo, "L20_Tex", "L20_set_color"),
                            "tex_of_M", "font_size", FontSize, "L20_Tex"))
    /\ UNCHANGED <<walk, env>>

(* line 20: .set_color(BLUE_C) *)
Logo_L20_set_color ==
    /\ logo.pc = "L20_set_color"
    /\ logo' = Call(logo, "L20_set_color", {}, LogoFault("L20_set_color"), "LibraryError",
                    SetAttr(Return(logo, "L20_set_color", "L20_set_opacity"),
                            "tex_of_M", "color", "BLUE_C", "L20_set_color"))
    /\ UNCHANGED <<walk, env>>

(* Variant of line 20: .set_color(BLUE_C, opacity=0.5) a second time *)
Logo_L20_set_color_again ==
    /\ logo.pc = "L20_set_opacity"
    /\ logo' = Call(logo, "L20_set_opacity", {}, LogoFault("L20_set_opacity"), "LibraryError",
                    Bind(SetAttr(SetAttr(Return(logo, "L20_set_opacity", "L21_GlowDot"),
                                 "tex_of_M", "color", "BLUE_C", "L20_set_opacity"),
                                 "tex_of_M", "opacity", TexOpacity, "L20_set_opacity"),
                         "tex_of_M"))
    /\ UNCHANGED <<walk, env>>

(* line 20: .set_opacity(0.5), and the result is bound to tex_of_M *)
Logo_L20_set_opacity ==
    /\ logo.pc = "L20_set_opacity"
    /\ logo' = Call(logo, "L20_set_opacity", {}, LogoFault("L20_set_opacity"), "LibraryError",
                    Bind(SetAttr(Return(logo, "L20_set_opacity", "L21_GlowDot"),
                                 "tex_of_M", "opacity", TexOpacity, "L20_set_opacity"),
                         "tex_of_M"))
    /\ UNCHANGED <<walk, env>>

(* line 21: GlowDot(color=WHITE, radius=1.5, glow_factor=1.75) *)
Logo_L21_GlowDot ==
    /\ logo.pc = "L21_GlowDot"
    /\ logo' = Call(logo, "L21_GlowDot", {}, LogoFault("L21_GlowDot"), "LibraryError",
                    SetAttr(SetAttr(SetAttr(
                        Return(logo, "L21_GlowDot", "L21_shift"),
                        "glowdot", "color", "WHITE", "L21_GlowDot"),
                        "glowdot", "radius", GlowRadius, "L21_GlowDot"),
                        "glowdot", "glow_factor", GlowFactor, "L21_GlowDot"))
    /\ UNCHANGED <<walk, env>>

(* Variant of line 21: the glow dot is added to the scene as soon as it is made *)
Logo_L21_shift_add ==
    /\ logo.pc = "L21_shift"
    /\ logo' = Call(logo, "L21_shift", {}, LogoFault("L21_shift"), "LibraryError",
                    AddMobject(Bind(Shift(Return(logo, "L21_shift", "L22_SVGMobject"),
                                          "glowdot", GlowShift, "L21_shift"),
                                    "glowdot"), "glowdot"))
    /\ UNCHANGED <<walk, env>>

(* line 21: .shift([0.94, 0.7, 0]), and the result is bound to glowdot *)
Logo_L21_shift ==
    /\ logo.pc = "L21_shift"
    /\ logo' = Call(logo, "L21_shift", {}, LogoFault("L21_shift"), "LibraryError",
                    Bind(Shift(Return(logo, "L21_shift", "L22_SVGMobject"),
                               "glowdot", GlowShift, "L21_shift"),
                         "glowdot"))
    /\ UNCHANGED <<walk, env>>

(* line 22: SVGMobject(file_name=ASSETS / "NotebookLogoWhite.svg",         *)
(* stroke_width=9.): the library reads the file when the object is built   *)
Logo_L22_SVGMobject ==
    /\ logo.pc = "L22_SVGMobject"
    /\ logo' = Call(logo, "L22_SVGMobject", {},
                    ~env.asset \/ LogoFault("L22_SVGMobject"),
                    IF ~env.asset THEN "FileNotFoundError" ELSE "LibraryError",
                    SetAttr(Return(logo, "L22_SVGMobject", "L22_shift"),
                            "svg_of_notebook", "stroke_width", SvgStrokeWidth,
                            "L22_SVGMobject"))
    /\ UNCHANGED <<walk, env>>

(* line 22: .shift([0., -0.15, 0]), and the result is bound to svg_of_notebook *)
Logo_L22_shift ==
    /\ logo.pc = "L22_shift"
    /\ logo' = Call(logo, "L22_shift", {}, LogoFault("L22_shift"), "LibraryError",
                    Bind(Shift(Return(logo, "L22_shift", "L23"),
                               "svg_of_notebook", SvgShift, "L22_shift"),
                         "svg_of_notebook"))
    /\ UNCHANGED <<walk, env>>

(* Variant of line 23: both scripts draw on one scene object *)
Logo_L23_play_shared ==
    /\ logo.pc = "L23"
    /\ logo' = Call(logo, "L23", {"tex_of_M", "svg_of_notebook"},
                    LogoFault("L23"), "LibraryError",
                    BeginPlay(AddMobject(AddMobject(Return(logo, "L23", "L23p"),
                                                    "tex_of_M"), "svg_of_notebook"),
                              {"Write(tex_of_M)", "Write(svg_of_notebook)"}))
    /\ walk' = IF logo'.pc = "L23p"
               THEN AddMobject(AddMobject(walk, "tex_of_M"), "svg_of_notebook")
               ELSE walk
    /\ UNCHANGED env

(* line 23: self.play(Write(tex_of_M), Write(svg_of_notebook)), up to the  *)
(* animations' begin: both mobjects are put on the scene                   *)
Logo_L23_play ==
    /\ logo.pc = "L23"
    /\ logo' = Call(logo, "L23", {"tex_of_M", "svg_of_notebook"},
                    LogoFault("L23"), "LibraryError",
                    BeginPlay(AddMobject(AddMobject(Return(logo, "L23", "L23p"),
                                                    "tex_of_M"), "svg_of_notebook"),
                              {"Write(tex_of_M)", "Write(svg_of_notebook)"}))
    /\ UNCHANGED <<walk, env>>

(* Variant of line 23: the play call is abandoned and the script goes on *)
Logo_L23_play_end_skipped ==
    /\ logo.pc = "L23p"
    /\ logo' = Call(logo, "L23p", {}, LogoFault("L23p"), "LibraryError",
                    [logo EXCEPT !.pc = "L24"])
    /\ UNCHANGED <<walk, env>>

(* line 23: the play call runs to its end and returns *)
Logo_L23_play_end ==
    /\ logo.pc = "L23p"
    /\ logo' = Call(logo, "L23p", {}, LogoFault("L23p"), "LibraryError",
                    EndPlay(Return(logo, "L23p", "L24")))
    /\ UNCHANGED <<walk, env>>

(* Variant of line 24: self.add(glow_dot), a name that was never bound *)
Logo_L24_add_typo ==
    /\ logo.pc = "L24"
    /\ logo' = Call(logo, "L24", {"glow_dot"}, LogoFault("L24"), "LibraryError",
                    AddMobject(Return(logo, "L24", "done"), "glowdot"))
    /\ UNCHANGED <<walk, env>>

(* line 24: self.add(glowdot); construct ends *)
Logo_L24_add ==
    /\ logo.pc = "L24"
    /\ logo' = Call(logo, "L24", {"glowdot"}, LogoFault("L24"), "LibraryError",
                    AddMobject(Return(logo, "L24", "done"), "glowdot"))
    /\ UNCHANGED <<walk, env>>

LogoNext ==
    \/ Logo_import
    \/ Logo_L20_Tex
    \/ Logo_L20_set_color
    \/ Logo_L20_set_opacity
    \/ Logo_L21_GlowDot
    \/ Logo_L21_shift
    \/ Logo_L22_SVGMobject
    \/ Logo_L22_shift
    \/ Logo_L23_play
    \/ Logo_L23_play_end
    \/ Logo_L24_add

----------------------------------------------------------------------------
(* The whole system *)

Envs(cellSets) ==
    [manimlib : BOOLEAN, asset : BOOLEAN,
     walkFault : WalkCalls \cup {"none"}, logoFault : LogoCalls \cup {"none"},
     cells : cellSets]

(* Each scene is rendered by a run of construct from its first line to its last *)
Init ==
    /\ walk = NewRun
    /\ logo = NewRun
    /\ env \in Envs({AllCells})

(* A preview runs the cells chosen, in the order written *)
InitCells ==
    /\ walk = NewRun
    /\ logo = NewRun
    /\ env \in Envs(SUBSET AllCells \ {{}})

Next == WalkNext \/ LogoNext

Spec == Init /\ [][Next]_vars

CellSpec == InitCells /\ [][Next]_vars

(* A run that can take a step takes it: the interpreter does not stop *)
FairSpec == Init /\ [][Next]_vars /\ WF_vars(WalkNext) /\ WF_vars(LogoNext)

----------------------------------------------------------------------------
(* Vocabulary of the properties *)

Ran(s, step) == step \in Range(s.log)

OnScene(s, o) == o \in Range(s.mobjects)

IndexOf(q, x) == CHOOSE i \in 1..Len(q) : q[i] = x

(* The calls written before `step` *)
Before(order, step) == SubSeq(order, 1, IndexOf(order, step) - 1)

Healthy == /\ env.manimlib
           /\ env.asset
           /\ env.walkFault = "none"
           /\ env.logoFault = "none"

WalkRendered == <<{"ShowCreation(circle)"},
                  {"ReplacementTransform(circle,square)"},
                  {"square.set_fill", "frame.set_width"}>>

LogoRendered == <<{"Write(tex_of_M)", "Write(svg_of_notebook)"}>>

----------------------------------------------------------------------------
(* C1: in a run of MyFirstManimNotebook.construct the three play calls     *)
(* come in the order written: the creation of the circle, then the         *)
(* transform of the circle into the square, then the play that colours the *)
(* square red; the second begins only when the first has returned and the  *)
(* third only when the second has returned.                                *)
C1_PlayOrder ==
    /\ IsPrefix(walk.rendered, WalkRendered)
    /\ Ran(walk, "L22") => Ran(walk, "L16p")
    /\ Ran(walk, "L25") => Ran(walk, "L22p")
    /\ Ran(walk, "L16p") => Ran(walk, "L16")
    /\ Ran(walk, "L22p") => Ran(walk, "L22")
    /\ Ran(walk, "L25p") => Ran(walk, "L25")
    /\ walk.playing # {} => walk.playing = WalkRendered[Len(walk.rendered) + 1]

C1_Witness ==
    /\ walk.pc = "done"
    /\ walk.rendered = WalkRendered

----------------------------------------------------------------------------
(* C2: where manimlib can be imported, the asset file exists and the       *)
(* library raises nothing, each of the two runs reaches the end of         *)
(* construct with its play calls rendered, and no error is ever raised.    *)
AllRendered ==
    /\ walk.pc = "done" /\ walk.err = "none" /\ walk.rendered = WalkRendered
    /\ logo.pc = "done" /\ logo.err = "none" /\ logo.rendered = LogoRendered

----------------------------------------------------------------------------
(* C3: an exception raised during a run is not caught: the run stops at    *)
(* the call that raised, with the calls before it done and none after it,  *)
(* the exception reaches the caller as it was raised, and nothing runs     *)
(* afterwards. With the asset file missing, ManimNotebookLogo.construct    *)
(* stops no later than the SVGMobject call: no play call has begun and the *)
(* glow dot is not on the scene.                                           *)
Uncaught(s, order, fault) ==
    /\ s.err # "none" <=> s.pc = "raised"
    /\ s.pc = "raised" =>
          /\ s.failedAt \in Range(order)
          /\ s.log = Before(order, s.failedAt)
          /\ s.err = (IF s.failedAt = "import" THEN "ImportError"
                      ELSE IF s.failedAt = "L22_SVGMobject" /\ ~env.asset
                           THEN "FileNotFoundError"
                      ELSE "LibraryError")
          /\ s.err = "LibraryError" => fault = s.failedAt
    /\ fault \notin Range(s.log)
    /\ s.pc = "done" => s.log = order

AssetMissing ==
    ~env.asset =>
       /\ ~Ran(logo, "L22_SVGMobject")
       /\ ~Ran(logo, "L23")
       /\ logo.playing = {} /\ logo.rendered = <<>>
       /\ ~OnScene(logo, "glowdot")
       /\ logo.pc # "done"
       /\ (logo.pc = "raised" /\ logo.err = "FileNotFoundError")
             => logo.failedAt = "L22_SVGMobject"
       /\ (logo.pc = "raised" /\ env.manimlib
             /\ env.logoFault \notin Range(Before(LogoOrder, "L22_SVGMobject")))
             => logo.err = "FileNotFoundError"

C3_State ==
    /\ Uncaught(walk, WalkOrder, env.walkFault)
    /\ Uncaught(logo, LogoOrder, env.logoFault)
    /\ AssetMissing

C3_Step ==
    /\ walk.pc = "raised" => walk' = walk
    /\ logo.pc = "raised" => logo' = logo

C3_Uncaught == []C3_State /\ [][C3_Step]_vars

C3_Witness ==
    /\ ~env.asset
    /\ logo.pc = "raised" /\ logo.failedAt = "L22_SVGMobject"
    /\ logo.err = "FileNotFoundError"
    /\ walk.pc = "raised" /\ walk.failedAt = "L22p" /\ walk.err = "LibraryError"

----------------------------------------------------------------------------
(* C4: over a run, every attribute of every object is set by at most one   *)
(* call of the script.                                                     *)
SetOnce(s) == \A k \in DOMAIN s.writes : Cardinality(s.writes[k]) <= 1

C4_SetOnce == SetOnce(walk) /\ SetOnce(logo)

C4_Witness ==
    /\ walk.pc = "done" /\ logo.pc = "done"
    /\ DOMAIN walk.writes =
          {<<"circle", "stroke_color">>, <<"circle", "stroke_width">>,
           <<"square", "fill_color">>, <<"square", "fill_opacity">>,
           <<"frame", "width">>}
    /\ DOMAIN logo.writes =
          {<<"tex_of_M", "font_size">>, <<"tex_of_M", "color">>,
           <<"tex_of_M", "opacity">>, <<"glowdot", "color">>,
           <<"glowdot", "radius">>, <<"glowdot", "glow_factor">>,
           <<"glowdot", "position">>, <<"svg_of_notebook", "stroke_width">>,
           <<"svg_of_notebook", "position">>}

----------------------------------------------------------------------------
(* C5: the two runs do not interact: no step changes both, a step of one   *)
(* leaves the other as it was, and what a finished run has built is the    *)
(* same whatever the other run has done, has not done or has failed at.    *)
Built(s) == [ns |-> s.ns, mobjects |-> s.mobjects, attr |-> s.attr,
             rendered |-> s.rendered, log |-> s.log]

WalkBuilt ==
    [ns |-> {"circle", "square"},
     mobjects |-> <<"square">>,
     attr |-> (<<"circle", "stroke_color">> :> "BLUE_E")
           @@ (<<"circle", "stroke_width">> :> StrokeWidth)
           @@ (<<"square", "fill_color">> :> "RED_D")
           @@ (<<"square", "fill_opacity">> :> FillOpacity)
           @@ (<<"frame", "width">> :> FrameWidth),
     rendered |-> WalkRendered,
     log |-> WalkOrder]

LogoBuilt ==
    [ns |-> {"tex_of_M", "glowdot", "svg_of_notebook"},
     mobjects |-> <<"tex_of_M", "svg_of_notebook", "glowdot">>,
     attr |-> (<<"tex_of_M", "font_size">> :> FontSize)
           @@ (<<"tex_of_M", "color">> :> "BLUE_C")
           @@ (<<"tex_of_M", "opacity">> :> TexOpacity)
           @@ (<<"glowdot", "color">> :> "WHITE")
           @@ (<<"glowdot", "radius">> :> GlowRadius)
           @@ (<<"glowdot", "glow_factor">> :> GlowFactor)
           @@ (<<"glowdot", "position">> :> GlowShift)
           @@ (<<"svg_of_notebook", "stroke_width">> :> SvgStrokeWidth)
           @@ (<<"svg_of_notebook", "position">> :> SvgShift),
     rendered |-> LogoRendered,
     log |-> LogoOrder]

C5_Results ==
    /\ walk.pc = "done" => Built(walk) = WalkBuilt
    /\ logo.pc = "done" => Built(logo) = LogoBuilt
    /\ Range(walk.mobjects) \cup walk.ns \subseteq {"circle", "square"}
    /\ Range(logo.mobjects) \cup logo.ns \subseteq {"tex_of_M", "glowdot", "svg_of_notebook"}

C5_Step ==
    /\ logo' # logo => walk' = walk
    /\ walk' # walk => logo' = logo
    /\ env' = env

C5_Independent == []C5_Results /\ [][C5_Step]_vars

(* one run has finished and the other has failed in the middle of its play call *)
C5_Witness ==
    /\ walk.pc = "done" /\ Built(walk) = WalkBuilt
    /\ logo.pc = "raised" /\ logo.failedAt = "L23p"

----------------------------------------------------------------------------
(* C6: both runs follow the order written: the calls that have returned    *)
(* are the first calls of the script, each once; a play call is in         *)
(* progress only between its begin and its end, so at most one at a time,  *)
(* and the next call starts only when it has returned; a run that reaches  *)
(* the end has made every call.                                            *)
OpenPlays(s, plays) == {b \in plays : Ran(s, b[1]) /\ ~Ran(s, b[2])}

InOrder(s, order, plays) ==
    /\ IsPrefix(s.log, order)
    /\ s.pc \notin {"done", "raised"} => s.pc = order[Len(s.log) + 1]
    /\ s.pc = "done" => s.log = order
    /\ Cardinality(OpenPlays(s, plays)) <= 1
    /\ s.playing # {} <=> OpenPlays(s, plays) # {}
    /\ \A b \in OpenPlays(s, plays) : s.log[Len(s.log)] = b[1]
    /\ Len(s.rendered) = Cardinality({b \in plays : Ran(s, b[2])})

WalkPlays == {<<"L16", "L16p">>, <<"L22", "L22p">>, <<"L25", "L25p">>}

LogoPlays == {<<"L23", "L23p">>}

C6_StatementOrder ==
    /\ InOrder(walk, WalkOrder, WalkPlays)
    /\ InOrder(logo, LogoOrder, LogoPlays)

C6_Witness ==
    /\ walk.pc = "L22p" /\ OpenPlays(walk, WalkPlays) = {<<"L22", "L22p">>}
    /\ logo.pc = "done" /\ logo.log = LogoOrder

----------------------------------------------------------------------------
(* C7: in ManimNotebookLogo.construct the letter, the glow dot and the     *)
(* notebook drawing all exist before the first play call begins; the       *)
(* letter and the drawing are written by one play call, the only one; the  *)
(* glow dot comes on the scene only when that play call has returned; at   *)
(* the end the scene holds these three objects and nothing else.           *)
C7_LogoLifecycle ==
    /\ Ran(logo, "L23") => logo.ns = {"tex_of_M", "glowdot", "svg_of_notebook"}
    /\ Ran(logo, "L23") /\ ~Ran(logo, "L23p")
          => /\ logo.playing = {"Write(tex_of_M)", "Write(svg_of_notebook)"}
             /\ logo.mobjects = <<"tex_of_M", "svg_of_notebook">>
    /\ ~Ran(logo, "L23") => logo.mobjects = <<>>
    /\ IsPrefix(logo.rendered, LogoRendered)
    /\ OnScene(logo, "glowdot") => Ran(logo, "L23p") /\ logo.playing = {}
    /\ logo.pc = "done"
          => /\ Range(logo.mobjects) = {"tex_of_M", "glowdot", "svg_of_notebook"}
             /\ Len(logo.mobjects) = Cardinality(Range(logo.mobjects))
             /\ logo.rendered = LogoRendered

C7_Witness ==
    /\ logo.pc = "done"
    /\ logo.mobjects = <<"tex_of_M", "svg_of_notebook", "glowdot">>

----------------------------------------------------------------------------
(* C8: in MyFirstManimNotebook.construct the circle and the square are     *)
(* never on the scene together: from the begin of the first play call to   *)
(* the end of the second the scene holds the circle and not the square,    *)
(* and from the end of the second on it holds the square and not the       *)
(* circle.                                                                 *)
C8_CircleThenSquare ==
    /\ ~(OnScene(walk, "circle") /\ OnScene(walk, "square"))
    /\ Ran(walk, "L16") /\ ~Ran(walk, "L22p") => walk.mobjects = <<"circle">>
    /\ Ran(walk, "L22p") => walk.mobjects = <<"square">>
    /\ ~Ran(walk, "L16") => walk.mobjects = <<>>

C8_Witness ==
    /\ walk.pc = "done"
    /\ walk.mobjects = <<"square">>
    /\ Ran(walk, "L16p") /\ Ran(walk, "L22p")

----------------------------------------------------------------------------
(* C9: the third play call of MyFirstManimNotebook.construct animates the  *)
(* fill of the square and the width of the camera frame together; when it  *)
(* returns the fill is RED_D with opacity 0.5 and the frame is 25 wide,    *)
(* before that neither is set; the position of the square is never set,    *)
(* and the width of the frame is the only geometry the run changes.        *)
Geometry == {"position", "width", "height"}

Third == {<<"square", "fill_color">>, <<"square", "fill_opacity">>, <<"frame", "width">>}

C9_ThirdStep ==
    /\ walk.pc = "L25p" => walk.playing = {"square.set_fill", "frame.set_width"}
    /\ Ran(walk, "L25p")
          => /\ walk.attr[<<"square", "fill_color">>] = "RED_D"
             /\ walk.attr[<<"square", "fill_opacity">>] = FillOpacity
             /\ walk.attr[<<"frame", "width">>] = FrameWidth
             /\ walk.rendered[3] = {"square.set_fill", "frame.set_width"}
    /\ ~Ran(walk, "L25p") => Third \cap DOMAIN walk.attr = {}
    /\ Position(walk, "square") = Origin
    /\ {k \in DOMAIN walk.attr : k[2] \in Geometry} \subseteq {<<"frame", "width">>}

C9_Witness ==
    /\ Ran(walk, "L25p")
    /\ Third \subseteq DOMAIN walk.attr
    /\ <<"square", "position">> \notin DOMAIN walk.attr

----------------------------------------------------------------------------
(* C10: the three cells of MyFirstManimNotebook.construct are consecutive  *)
(* and cover its calls; a preview runs calls of the chosen cells only, in  *)
(* the order written; a preview of cell 1, of cells 1-2 or of cells 1-3    *)
(* never reads an unbound name, and a preview with cell 2 but not cell 1,  *)
(* or with cell 3 but not cell 2, never reaches its end: unless something  *)
(* else fails first it stops with a NameError, at the play call of line 22 *)
(* (circle) or of line 25 (square).                                        *)
Prefixes == {{1}, {1, 2}, {1, 2, 3}}

CellsPartition ==
    /\ \A i \in 2..Len(WalkOrder) : CellOf(WalkOrder[i]) \in AllCells
    /\ \A i \in 2..(Len(WalkOrder) - 1) :
          CellOf(WalkOrder[i + 1]) \in {CellOf(WalkOrder[i]), CellOf(WalkOrder[i]) + 1}

(* The first call of the cell `step` lies in *)
FirstOfCell(step) ==
    WalkOrder[Min({i \in 2..Len(WalkOrder) : CellOf(WalkOrder[i]) = CellOf(step)})]

C10_Cells ==
    /\ CellsPartition
    /\ (walk.pc \in WalkCalls /\ CellOf(walk.pc) # CellOf(walk.log[Len(walk.log)]))
          => walk.pc = FirstOfCell(walk.pc)
    /\ \A i \in 1..Len(walk.log) :
          /\ CellOf(walk.log[i]) \in env.cells \cup {0}
          /\ i > 1 => IndexOf(WalkOrder, walk.log[i - 1]) < IndexOf(WalkOrder, walk.log[i])
    /\ walk.pc = "done" =>
          {CellOf(walk.log[i]) : i \in 2..Len(walk.log)} = env.cells
    /\ env.cells \in Prefixes => walk.err # "NameError"
    /\ env.cells \notin Prefixes <=>
          (2 \in env.cells /\ 1 \notin env.cells) \/ (3 \in env.cells /\ 2 \notin env.cells)
    /\ env.cells \notin Prefixes =>
          /\ walk.pc # "done"
          /\ walk.pc = "raised" /\ env.manimlib /\ env.walkFault = "none"
                => /\ walk.err = "NameError"
                   /\ walk.failedAt = (IF 2 \in env.cells /\ 1 \notin env.cells
                                       THEN "L22" ELSE "L25")

C10_Witness ==
    /\ env.cells = {1, 3}
    /\ walk.pc = "raised" /\ walk.err = "NameError" /\ walk.failedAt = "L25"
    /\ Ran(walk, "L16p")

====
